---- MODULE Spec2Model ----
(***************************************************************************)
(* Model of the /ai-query relay of app.py: the upload branch (extension    *)
(* dispatch, text extraction, image validation, session cache insert), the  *)
(* query branch (query check, session lookup, prompt composition, AI call) *)
(* and the shared in-memory session cache.                                  *)
(*                                                                         *)
(* A Python str is a sequence of one-character strings; the fixed prompt    *)
(* literals are single multi-character elements, so no document or query   *)
(* text can be mistaken for them.  bytes are sequences of 0..255.  A value  *)
(* Python tests only for truth (None, "", b"", [], a missing JSON field) is *)
(* the empty sequence, or 0 for a session id.                               *)
(***************************************************************************)
EXTENDS Integers, Sequences, FiniteSets, TLC

VARIABLES
    document_cache,   \* app.py:29, session id -> cache entry
    last,             \* the request handled last and everything it produced
    issued,           \* observer: session id -> what its upload's 200 promised
    thr               \* SpecC only: the request each worker thread is handling

vars == <<document_cache, last, issued, thr>>

-----------------------------------------------------------------------------
\* Bounds of the model.
MaxSessions == 2      \* session ids uuid4 can draw
MaxHist == 2          \* turns of a supplied history

SeqsUpTo(S, n) == UNION {[1..k -> S] : k \in 0..n}

RECURSIVE Concat(_)
Concat(ss) == IF ss = <<>> THEN <<>> ELSE Head(ss) \o Concat(Tail(ss))

RECURSIVE Join(_, _)
Join(sep, ss) ==
    IF ss = <<>> THEN <<>>
    ELSE IF Len(ss) = 1 THEN Head(ss)
    ELSE Head(ss) \o sep \o Join(sep, Tail(ss))

-----------------------------------------------------------------------------
\* Text: characters, whitespace, UTF-8 decoding, base64 encoding.

Whitespace == {" ", "\n", "\t"}

\* str.strip() == "": every character is whitespace.
StripsToEmpty(text) == \A i \in 1..Len(text) : text[i] \in Whitespace

\* The character of a code point (the ones the modelled files can hold).
CharOf(cp) ==
    CASE cp = 104 -> "h"
      [] cp = 105 -> "i"
      [] cp = 32 -> " "
      [] cp = 10 -> "\n"
      [] cp = 233 -> "U+00E9"
      [] OTHER -> "U+" \o ToString(cp)

\* bytes.decode('utf-8'), strict: one-byte and two-byte forms; any other
\* byte at the head of a character (a continuation byte, 0xC0, 0xC1, 0xFF, a
\* lead byte with no continuation) raises UnicodeDecodeError (ok = FALSE).
RECURSIVE Utf8Decode(_)
Utf8Decode(b) ==
    IF b = <<>> THEN [ok |-> TRUE, text |-> <<>>]
    ELSE IF b[1] < 128 THEN
        LET r == Utf8Decode(Tail(b)) IN
        [ok |-> r.ok, text |-> IF r.ok THEN <<CharOf(b[1])>> \o r.text ELSE <<>>]
    ELSE IF /\ b[1] >= 194 /\ b[1] <= 223
            /\ Len(b) >= 2 /\ b[2] >= 128 /\ b[2] <= 191 THEN
        LET r == Utf8Decode(SubSeq(b, 3, Len(b))) IN
        [ok |-> r.ok,
         text |-> IF r.ok THEN <<CharOf((b[1] - 192) * 64 + (b[2] - 128))>> \o r.text
                  ELSE <<>>]
    ELSE [ok |-> FALSE, text |-> <<>>]

B64Alphabet ==
    << "A", "B", "C", "D", "E", "F", "G", "H", "I", "J", "K", "L", "M", "N", "O", "P",
       "Q", "R", "S", "T", "U", "V", "W", "X", "Y", "Z", "a", "b", "c", "d", "e", "f",
       "g", "h", "i", "j", "k", "l", "m", "n", "o", "p", "q", "r", "s", "t", "u", "v",
       "w", "x", "y", "z", "0", "1", "2", "3", "4", "5", "6", "7", "8", "9", "+", "/" >>

B64Char(n) == B64Alphabet[n + 1]

\* base64.b64encode(image_bytes).decode('utf-8')
RECURSIVE b64encode(_)
b64encode(b) ==
    IF b = <<>> THEN <<>>
    ELSE IF Len(b) = 1 THEN
        LET n == b[1] * 65536 IN
        <<B64Char(n \div 262144), B64Char((n \div 4096) % 64), "=", "=">>
    ELSE IF Len(b) = 2 THEN
        LET n == b[1] * 65536 + b[2] * 256 IN
        <<B64Char(n \div 262144), B64Char((n \div 4096) % 64),
          B64Char((n \div 64) % 64), "=">>
    ELSE
        LET n == b[1] * 65536 + b[2] * 256 + b[3] IN
        <<B64Char(n \div 262144), B64Char((n \div 4096) % 64),
          B64Char((n \div 64) % 64), B64Char(n % 64)>>
        \o b64encode(SubSeq(b, 4, Len(b)))

-----------------------------------------------------------------------------
\* Responses of the endpoint.

\* jsonify(...), status: the JSON body's fields, "" / <<>> / 0 when absent.
Response(status, error, message, session_id, response) ==
    [status |-> status, error |-> error, message |-> message,
     session_id |-> session_id, response |-> response, uncaught |-> FALSE]

\* An exception that leaves ai_query: the framework answers 500 with its own
\* error page, not with a JSON body of the handler.
Uncaught ==
    [status |-> 500, error |-> "", message |-> "",
     session_id |-> 0, response |-> <<>>, uncaught |-> TRUE]

NoResponse ==
    [status |-> 0, error |-> "", message |-> "",
     session_id |-> 0, response |-> <<>>, uncaught |-> FALSE]

-----------------------------------------------------------------------------
\* Upload branch.

\* Filenames by their extension as written by the client.
Extensions ==
    {".txt", ".TXT", ".pdf", ".pptx", ".png", ".JPG", ".jpeg", ".webp", ".exe", ""}

\* os.path.splitext(filename)[1].lower()
file_extension(ext) ==
    CASE ext = ".TXT" -> ".txt"
      [] ext = ".JPG" -> ".jpg"
      [] OTHER -> ext

image_extensions == {".png", ".jpg", ".jpeg", ".webp"}

\* f'image/{file_extension[1:]}'
mime_type_of(ext) ==
    CASE ext = ".png" -> "image/png"
      [] ext = ".jpg" -> "image/jpg"
      [] ext = ".jpeg" -> "image/jpeg"
      [] ext = ".webp" -> "image/webp"
      [] OTHER -> "image/"

\* extract_text_from_pdf: page texts concatenated in page order, None on any
\* exception of the library.
extract_text_from_pdf(lib) ==
    IF lib.ok THEN [ok |-> TRUE, text |-> Concat(lib.parts)]
    ELSE [ok |-> FALSE, text |-> <<>>]

\* extract_text_from_pptx: shape texts joined with "\n", None on any exception.
extract_text_from_pptx(lib) ==
    IF lib.ok THEN [ok |-> TRUE, text |-> Join(<<"\n">>, lib.parts)]
    ELSE [ok |-> FALSE, text |-> <<>>]

\* not text or not text.strip()
ExtractionFailed(x) == ~x.ok \/ x.text = <<>> \/ StripsToEmpty(x.text)

TextEntry(text) ==
    [type |-> "text", text |-> text, bytes |-> <<>>, mime_type |-> ""]

ImageEntry(file_bytes, mime_type) ==
    [type |-> "image", text |-> <<>>, bytes |-> file_bytes, mime_type |-> mime_type]

NoEntry == [type |-> "", text |-> <<>>, bytes |-> <<>>, mime_type |-> ""]

\* What the upload branch decides: its response and the entry it stores.
UploadResult(resp, entry) == [resp |-> resp, store |-> entry # NoEntry, entry |-> entry]

ImageBranch(ext, file_bytes, lib, session_id) ==
    IF lib.ok
    THEN UploadResult(
             Response(200, "", "Image processed. You can now ask questions about it.",
                      session_id, <<>>),
             ImageEntry(file_bytes, mime_type_of(ext)))
    ELSE UploadResult(
             Response(400, "Uploaded file is not a valid image.", "", 0, <<>>),
             NoEntry)

\* Mutant: the text is cached before it is checked.
DocumentBranchStoresFirst(text, session_id) ==
    IF ExtractionFailed(text)
    THEN UploadResult(
             Response(500, "Failed to extract text from the document.", "", 0, <<>>),
             TextEntry(text.text))
    ELSE UploadResult(
             Response(200, "", "File processed. You can now ask questions about it.",
                      session_id, <<>>),
             TextEntry(text.text))

DocumentBranch(text, session_id) ==
    IF ExtractionFailed(text)
    THEN UploadResult(
             Response(500, "Failed to extract text from the document.", "", 0, <<>>),
             NoEntry)
    ELSE UploadResult(
             Response(200, "", "File processed. You can now ask questions about it.",
                      session_id, <<>>),
             TextEntry(text.text))

\* ai_query, a request that carries a file part.
Upload(filename, file_bytes, lib, session_id) ==
    LET ext == file_extension(filename) IN
    IF ext \in image_extensions THEN ImageBranch(ext, file_bytes, lib, session_id)
    ELSE IF ext = ".pdf" THEN DocumentBranch(extract_text_from_pdf(lib), session_id)
    ELSE IF ext = ".pptx" THEN DocumentBranch(extract_text_from_pptx(lib), session_id)
    ELSE IF ext = ".txt" THEN
        LET decoded == Utf8Decode(file_bytes) IN
        IF decoded.ok THEN DocumentBranch(decoded, session_id)
        ELSE UploadResult(Uncaught, NoEntry)
    ELSE UploadResult(Response(400, "Unsupported document type", "", 0, <<>>), NoEntry)

\* Mutant: the dictionary is rebound to one holding the new entry alone.
CachePutRebound(cache, session_id, entry) == [s \in {session_id} |-> entry]

\* document_cache[session_id] = entry
CachePut(cache, session_id, entry) ==
    [s \in DOMAIN cache \cup {session_id} |->
        IF s = session_id THEN entry ELSE cache[s]]

\* document_cache.get(session_id)
CacheGet(cache, session_id) ==
    IF session_id \in DOMAIN cache THEN cache[session_id] ELSE NoEntry

-----------------------------------------------------------------------------
\* Prompt composition and the AI call (get_ai_response).

DocPreamble ==
    <<"You are an AI study assistant. Use the provided document context to answer the user's query.\n\n--- DOCUMENT CONTEXT ---\n">>

QuerySeparator == <<"\n\n--- USER QUERY ---\n">>

ImagePreamble ==
    <<"You are an AI study assistant. Analyze the following image and answer the user's query about it.\n\n--- USER QUERY ---\n">>

TextPart(text) ==
    [kind |-> "text", text |-> text, mime_type |-> "", data |-> <<>>]

InlineDataPart(mime_type, data) ==
    [kind |-> "inline_data", text |-> <<>>, mime_type |-> mime_type, data |-> data]

\* Mutant: the default of the role test is the wrong way round.
GeminiRoleDefaultUser(role) == IF role = "model" THEN "model" ELSE "user"

\* role = "user" if message.get("role") == "user" else "model"
GeminiRole(role) == IF role = "user" THEN "user" ELSE "model"

\* {"role": role, "parts": [{"text": message.get("text")}]}
HistoryTurn(message) ==
    [role |-> GeminiRole(message.role), parts |-> <<TextPart(message.text)>>]

\* The loop over history: one turn per message, in order.
HistoryTurns(history) == [i \in 1..Len(history) |-> HistoryTurn(history[i])]

\* message.get raises AttributeError on a history element that is no object.
HistoryRaises(history) == \E i \in 1..Len(history) : ~history[i].obj

\* Mutant: the image branch forgets the inline-data part.
FinalPartsNoInlineData(prompt, document_text, image_bytes, mime_type) ==
    IF document_text # <<>> THEN
        <<TextPart(DocPreamble \o document_text \o QuerySeparator \o prompt)>>
    ELSE IF image_bytes # <<>> THEN <<TextPart(ImagePreamble \o prompt)>>
    ELSE <<TextPart(prompt)>>

\* final_parts: document context, else image context, else the raw prompt.
FinalParts(prompt, document_text, image_bytes, mime_type) ==
    IF document_text # <<>> THEN
        <<TextPart(DocPreamble \o document_text \o QuerySeparator \o prompt)>>
    ELSE IF image_bytes # <<>> THEN
        <<TextPart(ImagePreamble \o prompt),
          InlineDataPart(mime_type, b64encode(image_bytes))>>
    ELSE <<TextPart(prompt)>>

\* payload["contents"]
Contents(prompt, history, document_text, image_bytes, mime_type) ==
    Append(HistoryTurns(history),
           [role |-> "user",
            parts |-> FinalParts(prompt, document_text, image_bytes, mime_type)])

\* What the AI service does with one POST.  "none": no POST was made.
NoUpstream == [kind |-> "none", status |-> 0, text |-> <<>>]

UpstreamOutcomes ==
    {[kind |-> "transport", status |-> 0, text |-> <<>>],
     [kind |-> "http_error", status |-> 429, text |-> <<>>],
     [kind |-> "http_error", status |-> 503, text |-> <<>>],
     [kind |-> "bad_json", status |-> 200, text |-> <<>>],
     [kind |-> "no_candidates", status |-> 200, text |-> <<>>],
     [kind |-> "bad_shape", status |-> 200, text |-> <<>>],
     [kind |-> "ok", status |-> 200, text |-> <<>>],
     [kind |-> "ok", status |-> 200, text |-> <<"A">>]}

NoCandidatesText ==
    <<"The AI could not generate a response, possibly due to safety settings or content restrictions.">>

HttpErrorText(status) ==
    <<"Sorry, an error occurred with the AI service (HTTP ", ToString(status), ").">>

GenericErrorText == <<"Sorry, an error occurred while communicating with the AI.">>

\* Mutant: the HTTP error is passed on as the body of the failed response.
AnswerTextPassesBody(upstream) ==
    CASE upstream.kind = "ok" -> upstream.text
      [] upstream.kind = "no_candidates" -> NoCandidatesText
      [] upstream.kind = "http_error" -> upstream.text
      [] OTHER -> GenericErrorText

\* The value get_ai_response returns for an outcome of the POST.
AnswerText(upstream) ==
    CASE upstream.kind = "ok" -> upstream.text
      [] upstream.kind = "no_candidates" -> NoCandidatesText
      [] upstream.kind = "http_error" -> HttpErrorText(upstream.status)
      [] OTHER -> GenericErrorText

\* get_ai_response: the returned string and the payloads it POSTed.
get_ai_response(prompt, history, document_text, image_bytes, mime_type, upstream) ==
    IF HistoryRaises(history)
    THEN [text |-> GenericErrorText, payloads |-> <<>>]
    ELSE [text |-> AnswerText(upstream),
          payloads |-> <<Contents(prompt, history, document_text, image_bytes, mime_type)>>]

-----------------------------------------------------------------------------
\* Query branch.

QueryResult(resp, ai, gateway, context) ==
    [resp |-> resp, payloads |-> ai.payloads, gateway |-> gateway, context |-> context]

NoCall == [text |-> <<>>, payloads |-> <<>>]

\* if not query
QueryMissing(data) == data.query = <<>>

\* Mutant: the lookup's result is not checked.
SessionNeverMissing(cached_data) == FALSE

\* if not cached_data
SessionMissing(cached_data) == cached_data = NoEntry

\* ai_query, a request with no file part.
Query(data, upstream, cache) ==
    IF ~data.present THEN
        QueryResult(Response(400, "Invalid JSON payload.", "", 0, <<>>), NoCall, FALSE, "")
    ELSE IF QueryMissing(data) THEN
        QueryResult(Response(400, "Query is required.", "", 0, <<>>), NoCall, FALSE, "")
    ELSE IF data.session_id # 0 THEN
        LET cached_data == CacheGet(cache, data.session_id) IN
        IF SessionMissing(cached_data) THEN
            QueryResult(
                Response(404, "Invalid session ID. Please upload the document again.",
                         "", 0, <<>>),
                NoCall, FALSE, "")
        ELSE IF cached_data.type = "text" THEN
            LET ai == get_ai_response(data.query, data.history, cached_data.text,
                                      <<>>, "", upstream) IN
            QueryResult(Response(200, "", "", 0, ai.text), ai, TRUE, "text")
        ELSE IF cached_data.type = "image" THEN
            LET ai == get_ai_response(data.query, data.history, <<>>,
                                      cached_data.bytes, cached_data.mime_type, upstream) IN
            QueryResult(Response(200, "", "", 0, ai.text), ai, TRUE, "image")
        ELSE QueryResult(Response(200, "", "", 0, <<>>), NoCall, FALSE, "")
    ELSE
        LET ai == get_ai_response(data.query, data.history, <<>>, <<>>, "", upstream) IN
        QueryResult(Response(200, "", "", 0, ai.text), ai, TRUE, "none")

-----------------------------------------------------------------------------
\* Inputs.

\* uuid.uuid4(): a value no earlier call returned and no client knows before
\* the upload's response.
UuidSpace == 1..MaxSessions

\* Mutant: an id generator that can repeat a value.
uuid4Repeats(taken) == UuidSpace

\* The values uuid4 can return when the ids in `taken` are in use.
uuid4(taken) == UuidSpace \ taken

\* Session ids a client can send: 0 is a missing, null or empty session_id.
ClientSessionIds == 0..(MaxSessions + 1)

\* Uploaded .txt files: empty, whitespace only, "hi", U+00E9 in two bytes,
\* and two that are not UTF-8 (a stray 0xFF, a lead byte with no continuation).
TxtFiles ==
    {<<>>, <<32, 10>>, <<104, 105>>, <<195, 169>>, <<255>>, <<104, 195>>}

\* Other uploaded files: no bytes at all, and the first bytes of a PNG.
BinaryFiles == {<<>>, <<137, 80>>}

\* Page texts of a PDF, shape texts of a slide deck, as the library gives them.
DocParts == {<<>>, <<<<" ">>, <<"\n">>>>, <<<<"h">>>>, <<<<"h">>, <<"i">>>>}

FilesFor(filename) ==
    IF file_extension(filename) = ".txt" THEN TxtFiles ELSE BinaryFiles

NoLibrary == [ok |-> TRUE, parts |-> <<>>]

\* What the parsing library does with the file: Image.open, fitz.open and
\* page.get_text, Presentation and shape.text.
LibraryOutcomes(filename, file_bytes) ==
    LET ext == file_extension(filename) IN
    IF ext \in image_extensions THEN
        IF file_bytes = <<>> THEN {[ok |-> FALSE, parts |-> <<>>]}
        ELSE {[ok |-> TRUE, parts |-> <<>>], [ok |-> FALSE, parts |-> <<>>]}
    ELSE IF ext \in {".pdf", ".pptx"} THEN
        {[ok |-> FALSE, parts |-> <<>>]}
        \cup {[ok |-> TRUE, parts |-> p] : p \in DocParts}
    ELSE {NoLibrary}

Roles == {"user", "model", "assistant"}

\* Elements of a history list: objects with a role and a text, and a JSON
\* value that is no object (a string, a number).
Messages ==
    {[obj |-> TRUE, role |-> r, text |-> <<"a">>] : r \in Roles}
    \cup {[obj |-> FALSE, role |-> "", text |-> <<>>]}

Queries == {<<>>, <<"q">>}

Bodies ==
    {[present |-> FALSE, query |-> <<>>, session_id |-> 0, history |-> <<>>]}
    \cup {[present |-> TRUE, query |-> q, session_id |-> s, history |-> h] :
             q \in Queries, s \in ClientSessionIds, h \in SeqsUpTo(Messages, MaxHist)}

\* The outcomes the service can have for this request: none when the handler
\* makes no POST.
UpstreamFor(data, cache) ==
    IF Query(data, NoUpstream, cache).payloads = <<>> THEN {NoUpstream}
    ELSE UpstreamOutcomes

-----------------------------------------------------------------------------
\* The extracted text T of a document upload, for the observer `issued`.
ExtractedText(filename, file_bytes, lib) ==
    LET ext == file_extension(filename) IN
    IF ext = ".pdf" THEN extract_text_from_pdf(lib).text
    ELSE IF ext = ".pptx" THEN extract_text_from_pptx(lib).text
    ELSE Utf8Decode(file_bytes).text

Promised(filename, file_bytes, lib) ==
    LET ext == file_extension(filename) IN
    IF ext \in image_extensions
    THEN [type |-> "image", text |-> <<>>, bytes |-> file_bytes,
          mime_type |-> mime_type_of(ext)]
    ELSE [type |-> "text", text |-> ExtractedText(filename, file_bytes, lib),
          bytes |-> <<>>, mime_type |-> ""]

NoData == [present |-> FALSE, query |-> <<>>, session_id |-> 0, history |-> <<>>]

\* Worker threads of the server, each handling one request at a time.
Threads == {"t1", "t2"}

\* A thread between requests.
IdleThread ==
    [pc |-> "idle", session_id |-> 0, result |-> UploadResult(NoResponse, NoEntry),
     promised |-> NoEntry, data |-> NoData, after_200 |-> FALSE, cached_data |-> NoEntry]

Idle == [t \in Threads |-> IdleThread]

\* No request is being handled.
NoRequest ==
    [kind |-> "none", filename |-> "", file_bytes |-> <<>>, lib |-> NoLibrary,
     data |-> NoData, upstream |-> NoUpstream, resp |-> NoResponse,
     payloads |-> <<>>, gateway |-> FALSE, context |-> "", stored |-> FALSE]

Init ==
    /\ document_cache = <<>>
    /\ issued = <<>>
    /\ last = NoRequest
    /\ thr = Idle

\* One upload request handled from start to end.  Uploads stop when uuid4
\* has no id left to draw (MaxSessions entries are cached).
UploadRequest ==
    /\ last = NoRequest
    /\ \E filename \in Extensions, session_id \in uuid4(DOMAIN document_cache) :
      \E file_bytes \in FilesFor(filename) :
        \E lib \in LibraryOutcomes(filename, file_bytes) :
          LET r == Upload(filename, file_bytes, lib, session_id) IN
          /\ document_cache' =
                 IF r.store THEN CachePut(document_cache, session_id, r.entry)
                 ELSE document_cache
          /\ issued' =
                 IF r.resp.status = 200
                 THEN CachePut(issued, r.resp.session_id, Promised(filename, file_bytes, lib))
                 ELSE issued
          /\ last' = [kind |-> "upload", filename |-> filename, file_bytes |-> file_bytes,
                      lib |-> lib, data |-> NoData, upstream |-> NoUpstream,
                      resp |-> r.resp, payloads |-> <<>>, gateway |-> FALSE,
                      context |-> "", stored |-> r.store]
          /\ UNCHANGED thr

\* One query request handled from start to end.
QueryRequest ==
    /\ last = NoRequest
    /\ \E data \in Bodies :
      \E upstream \in UpstreamFor(data, document_cache) :
        LET r == Query(data, upstream, document_cache) IN
        /\ last' = [kind |-> "query", filename |-> "", file_bytes |-> <<>>,
                    lib |-> NoLibrary, data |-> data, upstream |-> upstream,
                    resp |-> r.resp, payloads |-> r.payloads, gateway |-> r.gateway,
                    context |-> r.context, stored |-> FALSE]
        /\ UNCHANGED <<document_cache, issued, thr>>

\* The response is sent; nothing of the request stays but the cache entry.
Respond ==
    /\ last # NoRequest
    /\ last' = NoRequest
    /\ UNCHANGED <<document_cache, issued, thr>>

Next == UploadRequest \/ QueryRequest \/ Respond

Spec == Init /\ [][Next]_vars

-----------------------------------------------------------------------------
\* Concurrent handling: the handler's steps on the shared dictionary, one
\* dictionary insert or lookup per step, interleaved over the threads.

\* Filenames and bodies of the concurrent requests.
CFilenames == {".txt", ".png", ".exe"}

CBodies == {b \in Bodies : b.history = <<>>}

\* Session ids drawn by uploads still being handled.
InFlight == {thr[t].session_id : t \in {u \in Threads : thr[u].pc \in {"uploading", "stored"}}}

\* Lines 122-148: the file is read, uuid4 drawn, the file validated or its
\* text extracted; nothing shared is touched.
CUploadBegin(t) ==
    /\ thr[t].pc = "idle"
    /\ \E filename \in CFilenames,
          session_id \in uuid4(DOMAIN document_cache \cup InFlight) :
         \E file_bytes \in FilesFor(filename) :
           \E lib \in LibraryOutcomes(filename, file_bytes) :
             thr' = [thr EXCEPT ![t] =
                        [IdleThread EXCEPT
                            !.pc = "uploading",
                            !.session_id = session_id,
                            !.result = Upload(filename, file_bytes, lib, session_id),
                            !.promised = Promised(filename, file_bytes, lib)]]
    /\ UNCHANGED <<document_cache, issued, last>>

\* Lines 135 and 150: the insert into the shared dictionary.
CUploadStore(t) ==
    /\ thr[t].pc = "uploading"
    /\ thr[t].result.store
    /\ document_cache' = CachePut(document_cache, thr[t].session_id, thr[t].result.entry)
    /\ thr' = [thr EXCEPT ![t].pc = "stored"]
    /\ UNCHANGED <<issued, last>>

\* Lines 136 and 151: the 200 response with the session id is returned.
CUploadReturn(t) ==
    /\ thr[t].pc = "stored"
    /\ issued' = CachePut(issued, thr[t].result.resp.session_id, thr[t].promised)
    /\ thr' = [thr EXCEPT ![t] = IdleThread]
    /\ UNCHANGED <<document_cache, last>>

\* Lines 139, 145, 148: a rejected upload returns; also an exception leaving
\* the handler.
CUploadReject(t) ==
    /\ thr[t].pc = "uploading"
    /\ ~thr[t].result.store
    /\ thr' = [thr EXCEPT ![t] = IdleThread]
    /\ UNCHANGED <<document_cache, issued, last>>

\* Lines 153-162: the body is parsed.  after_200 records whether the 200 of
\* the upload that issued this session id had been returned by then.
CQueryBegin(t) ==
    /\ thr[t].pc = "idle"
    /\ \E data \in CBodies :
         thr' = [thr EXCEPT ![t] =
                    [IdleThread EXCEPT
                        !.pc = "querying",
                        !.data = data,
                        !.after_200 = data.session_id \in DOMAIN issued]]
    /\ UNCHANGED <<document_cache, issued, last>>

\* The request reaches the lookup: a body with a query and a session id.
ReachesLookup(data) == data.present /\ ~QueryMissing(data) /\ data.session_id # 0

\* Line 166: the lookup in the shared dictionary.
CQueryLookup(t) ==
    /\ thr[t].pc = "querying"
    /\ ReachesLookup(thr[t].data)
    /\ thr' = [thr EXCEPT ![t].pc = "looked",
                          ![t].cached_data = CacheGet(document_cache, thr[t].data.session_id)]
    /\ UNCHANGED <<document_cache, issued, last>>

\* Lines 155, 162, 168-181: the rest of the query, which touches nothing
\* shared: the response is the one Query gives for the entry looked up.
CQueryReturn(t) ==
    /\ \/ thr[t].pc = "looked"
       \/ thr[t].pc = "querying" /\ ~ReachesLookup(thr[t].data)
    /\ thr' = [thr EXCEPT ![t] = IdleThread]
    /\ UNCHANGED <<document_cache, issued, last>>

NextC ==
    \E t \in Threads :
        \/ CUploadBegin(t)
        \/ CUploadStore(t)
        \/ CUploadReturn(t)
        \/ CUploadReject(t)
        \/ CQueryBegin(t)
        \/ CQueryLookup(t)
        \/ CQueryReturn(t)

SpecC == Init /\ [][NextC]_vars

-----------------------------------------------------------------------------
\* Properties.

\* The request handled last is a query whose body has a non-empty query.
IsQuery == last.kind = "query" /\ last.data.present /\ last.data.query # <<>>

\* The final turn of a payload.
FinalTurn(payload) == payload[Len(payload)]

EndsWith(text, suffix) ==
    /\ Len(text) >= Len(suffix)
    /\ SubSeq(text, Len(text) - Len(suffix) + 1, Len(text)) = suffix

DocumentExtensions == {".pdf", ".pptx", ".txt"}

\* The index of a character of the base64 alphabet.
B64Index(c) == CHOOSE n \in 0..63 : B64Alphabet[n + 1] = c

\* Base64 decoding, for reading the bytes an inline-data part holds.
RECURSIVE b64decode(_)
b64decode(d) ==
    IF Len(d) < 4 THEN <<>>
    ELSE
        LET i1 == B64Index(d[1])
            i2 == B64Index(d[2])
            rest == b64decode(SubSeq(d, 5, Len(d)))
        IN  IF d[3] = "=" THEN <<i1 * 4 + i2 \div 16>>
            ELSE IF d[4] = "=" THEN
                <<i1 * 4 + i2 \div 16, (i2 % 16) * 16 + B64Index(d[3]) \div 4>>
            ELSE
                <<i1 * 4 + i2 \div 16, (i2 % 16) * 16 + B64Index(d[3]) \div 4,
                  (B64Index(d[3]) % 4) * 64 + B64Index(d[4])>> \o rest

\* C1 (as claimed): a query with a non-empty query q and the session id of a
\* document upload that returned 200 with extracted text T sends exactly one
\* payload, whose final turn's text is preamble, T, separator, q in that order.
C1_RoundTrip ==
    (IsQuery /\ last.data.session_id \in DOMAIN issued
        /\ issued[last.data.session_id].type = "text")
    => /\ Len(last.payloads) = 1
       /\ FinalTurn(last.payloads[1]).parts[1].text =
              DocPreamble \o issued[last.data.session_id].text
                  \o QuerySeparator \o last.data.query

UnusableDocument ==
    /\ last.kind = "upload"
    /\ file_extension(last.filename) \in DocumentExtensions
    /\ \/ file_extension(last.filename) = ".txt"
          /\ ExtractionFailed(Utf8Decode(last.file_bytes))
       \/ file_extension(last.filename) = ".pdf"
          /\ ExtractionFailed(extract_text_from_pdf(last.lib))
       \/ file_extension(last.filename) = ".pptx"
          /\ ExtractionFailed(extract_text_from_pptx(last.lib))

\* C3 (as claimed): no exception leaves the handler, and an upload of a
\* document that cannot be parsed or decoded, or whose text is empty or
\* whitespace-only, is answered with the 500 'Failed to extract text' JSON
\* response and stores nothing.
C3_ExtractionFailureIs500 ==
    /\ ~last.resp.uncaught
    /\ UnusableDocument
       => /\ last.resp.status = 500
          /\ last.resp.error = "Failed to extract text from the document."
          /\ ~last.stored

\* C4: a query that reaches the gateway is answered 200 whatever the service
\* did, and with a non-empty string when the service answered with an error
\* status, the POST raised, the body could not be read or held no candidates
\* (or no POST was made); the service's status is not the endpoint's.
C4_UpstreamFailureIs200 ==
    (last.kind = "query" /\ last.gateway)
    => /\ last.resp.status = 200
       /\ ~last.resp.uncaught
       /\ last.upstream.kind # "ok" => last.resp.response # <<>>
       /\ last.upstream.kind = "http_error" => last.resp.status # last.upstream.status

C4_Witness ==
    /\ last.kind = "query" /\ last.gateway
    /\ last.upstream.kind = "http_error"
    /\ last.upstream.status = 503
    /\ last.resp.status = 200
    /\ last.resp.response = HttpErrorText(503)

\* The payload sent has one turn per history turn and one more, each history
\* turn's text in its place, and a trailing user turn that ends with the query.
TurnsInOrder(payload) ==
    /\ Len(payload) = Len(last.data.history) + 1
    /\ \A i \in 1..Len(last.data.history) :
           payload[i].parts = <<TextPart(last.data.history[i].text)>>
    /\ FinalTurn(payload).role = "user"
    /\ EndsWith(FinalTurn(payload).parts[1].text, last.data.query)

\* C5 (as claimed): turn i of the payload carries the role and the text of
\* history turn i, and the trailing turn is a user turn with the query.
C5_RolesCarried ==
    \A k \in 1..Len(last.payloads) :
        /\ TurnsInOrder(last.payloads[k])
        /\ \A i \in 1..Len(last.data.history) :
               last.payloads[k][i].role = last.data.history[i].role

\* C5 (amended): as claimed, but turn i carries the role "user" when history
\* turn i has the role "user" and the role "model" for every other role.
C5_RolesNormalized ==
    \A k \in 1..Len(last.payloads) :
        /\ TurnsInOrder(last.payloads[k])
        /\ \A i \in 1..Len(last.data.history) :
               /\ last.data.history[i].role = "user"
                    => last.payloads[k][i].role = "user"
               /\ last.data.history[i].role # "user"
                    => last.payloads[k][i].role = "model"

C5_Witness ==
    /\ Len(last.payloads) = 1
    /\ Len(last.data.history) = 2
    /\ last.data.history[1].role = "assistant"
    /\ last.data.history[2].role = "user"
    /\ last.payloads[1][1].role = "model"
    /\ last.payloads[1][2].role = "user"
    /\ Len(last.payloads[1]) = 3

\* C6: the cache changes only in an upload answered 200, and then by the one
\* new entry under the returned session id; every other upload and every
\* query leaves it as it was.
C6_CacheFrame ==
    [][IF last'.kind = "upload" /\ last'.resp.status = 200
       THEN /\ last'.resp.session_id \notin DOMAIN document_cache
            /\ DOMAIN document_cache' = DOMAIN document_cache \cup {last'.resp.session_id}
            /\ \A s \in DOMAIN document_cache : document_cache'[s] = document_cache[s]
       ELSE document_cache' = document_cache]_vars

C6_Witness ==
    /\ last.kind = "upload"
    /\ last.filename = ".exe"
    /\ last.resp.status = 400
    /\ ~last.stored
    /\ Cardinality(DOMAIN document_cache) = 1

\* C7: an entry of the cache stays, and stays the same, over every request.
C7_EntriesPermanent ==
    [][\A s \in DOMAIN document_cache :
           /\ s \in DOMAIN document_cache'
           /\ CacheGet(document_cache', s) = document_cache[s]]_vars

C7_Witness ==
    /\ last.kind = "upload"
    /\ last.resp.status = 200
    /\ Cardinality(DOMAIN document_cache) = 2
    /\ \A s \in DOMAIN issued : CacheGet(document_cache, s) = issued[s]

\* C8 (as claimed): a body with no query is answered 400 with no payload sent,
\* whatever its session id and history; a request answered 400 or 404 sends no
\* payload; a query answered 200 sends exactly one.
C8_CallCount ==
    /\ (last.kind = "query" /\ last.data.query = <<>>)
       => last.resp.status = 400 /\ last.payloads = <<>>
    /\ last.resp.status \in {400, 404} => last.payloads = <<>>
    /\ (last.kind = "query" /\ last.resp.status = 200) => Len(last.payloads) = 1

\* The three forms of the final turn.
RawForm(parts) == parts = <<TextPart(last.data.query)>>

DocumentForm(parts, entry) ==
    parts = <<TextPart(DocPreamble \o entry.text \o QuerySeparator \o last.data.query)>>

ImageForm(parts, entry) ==
    /\ Len(parts) = 2
    /\ parts[1] = TextPart(ImagePreamble \o last.data.query)
    /\ parts[2].kind = "inline_data"
    /\ parts[2].mime_type = entry.mime_type
    /\ b64decode(parts[2].data) = entry.bytes

\* C9: the final turn of a payload has the raw form for a query with no
\* session id, the document form for a session of kind text, the image form
\* for a session of kind image; a query whose session is in the cache goes to
\* the gateway with the context of its entry's kind.
C9_ContextBySession ==
    IsQuery =>
        LET sid == last.data.session_id
            entry == CacheGet(document_cache, sid)
        IN  /\ \A k \in 1..Len(last.payloads) :
                   LET parts == FinalTurn(last.payloads[k]).parts IN
                   /\ sid = 0 => RawForm(parts)
                   /\ entry.type = "text" => DocumentForm(parts, entry)
                   /\ entry.type = "image" => ImageForm(parts, entry)
            /\ sid = 0 => last.gateway /\ last.context = "none"
            /\ (sid # 0 /\ sid \in DOMAIN document_cache)
               => /\ last.gateway
                  /\ last.context = entry.type
                  /\ entry.type \in {"text", "image"}
                  /\ last.resp.status = 200

C9_Witness ==
    /\ IsQuery
    /\ last.data.session_id \in DOMAIN document_cache
    /\ document_cache[last.data.session_id].type = "image"
    /\ document_cache[last.data.session_id].bytes = <<137, 80>>
    /\ Len(last.payloads) = 1
    /\ Len(last.data.history) = 1
    /\ FinalTurn(last.payloads[1]).parts[2].data = <<"i", "V", "A", "=">>

\* An entry as an upload builds it: a kind, and all the fields of the kind.
Complete(entry) ==
    \/ entry.type = "text" /\ entry.text # <<>>
    \/ entry.type = "image" /\ entry.bytes # <<>> /\ entry.mime_type # ""

\* C10: under every interleaving, the entry of an upload that returned 200 is
\* in the cache as the upload built it; uploads in progress hold distinct
\* session ids, none of them an id already returned; a lookup gives nothing
\* or a complete entry; and a query that began after the 200 of its session's
\* upload finds that upload's entry.
C10_ConcurrentCache ==
    /\ \A s \in DOMAIN issued :
           s \in DOMAIN document_cache /\ document_cache[s] = issued[s]
    /\ \A t \in Threads :
           /\ thr[t].pc = "stored"
              => CacheGet(document_cache, thr[t].session_id) = thr[t].result.entry
           /\ thr[t].pc \in {"uploading", "stored"}
              => /\ thr[t].session_id \notin DOMAIN issued
                 /\ \A u \in Threads \ {t} :
                        thr[u].pc \in {"uploading", "stored"}
                        => thr[u].session_id # thr[t].session_id
           /\ thr[t].pc = "looked"
              => /\ thr[t].cached_data = NoEntry \/ Complete(thr[t].cached_data)
                 /\ thr[t].after_200
                    => thr[t].cached_data = issued[thr[t].data.session_id]

C10_Witness ==
    \E t, u \in Threads :
        /\ thr[t].pc = "looked"
        /\ thr[t].after_200
        /\ thr[t].cached_data.type = "text"
        /\ thr[u].pc = "stored"
        /\ Cardinality(DOMAIN document_cache) = 2
        /\ Cardinality(DOMAIN issued) = 1

====
